---- MODULE Spec2Model ----
(***************************************************************************)
(* Vehicle line-crossing counter: src/core/detection_process.py.           *)
(*                                                                         *)
(* Units.  The code computes with floats; the model computes the same      *)
(* quantities exactly, with integers:                                      *)
(*   - box coordinates are in HALF pixels (a box edge is n or n + 0.5 px), *)
(*     so int(box[3]) is a real truncation;                                *)
(*   - a center ((a + b) / 2) is in QUARTER pixels, and so are distances   *)
(*     and total_distance;                                                 *)
(*   - confidences, ratios and thresholds are in thousandths;              *)
(*   - a quotient the code compares with a threshold is compared by cross  *)
(*     multiplication (all values are small, so the float quotient is on   *)
(*     the same side of the threshold as the exact one);                   *)
(*   - a class name is a sequence of one-character strings, so lower() and *)
(*     the substring test are computed.                                    *)
(*                                                                         *)
(* Processes.  The worker (detection_process) is at pc: "load" before the  *)
(* oracle is built, "loop" at the test of its while loop, "get" inside     *)
(* frame_q.get, "done" after its loop.  frame_q is a multiprocessing       *)
(* Queue: an entry the producer puts is counted against maxsize at once    *)
(* (it sits in frame_buf) and becomes readable once the queue's feeder     *)
(* thread has written it to the pipe (frame_q).  got_data is the entry the *)
(* worker holds between frame_q.get and the end of its cycle ("cycle").    *)
(* result_q holds every message the worker has put, in order, as it was    *)
(* at the put; serialized holds the messages result_q's feeder thread has  *)
(* pickled, as the bytes say; the GUI has taken the first results_taken    *)
(* of them.  The producer (video_feed_loop) is at feed_pc.  enqueued,      *)
(* dequeued, errors, timeouts_after_stop and drops record what happened.   *)
(*                                                                         *)
(* Lifecycle.  The specifications above follow one run of one worker.      *)
(* SpecLifecycle follows the GUI's start and stop handlers across several  *)
(* runs: workers[p] is the p-th process started (its position, whether     *)
(* model_ready waits in its result queue, whether stop_detection set the   *)
(* flag for it, and which polling chain terminated it), detection_proc is  *)
(* the one self.detection_proc refers to (0 for None), pending_checks are  *)
(* the scheduled _check_process_shutdown callbacks, each named after the   *)
(* process detection_proc referred to when stop_detection scheduled the    *)
(* first of its chain.  There the variables of the single run stand still, *)
(* and in the specifications of a single run these four do.                *)
(***************************************************************************)
EXTENDS Integers, Sequences, FiniteSets, TLC

VARIABLES frame_shape, settings, vehicle_states, vehicle_counts, frame_num,
          event_log, last_cycle, det_used, settings_updates, trace,
          pc, stop_event, frame_q, frame_buf, got_data, result_q, serialized,
          results_taken, is_loading, running, new_settings_to_send,
          feed_pc, frames_read, cur_frame,
          enqueued, dequeued, errors, timeouts_after_stop, drops,
          workers, detection_proc, shutdown_attempts, pending_checks

vars == <<frame_shape, settings, vehicle_states, vehicle_counts, frame_num,
          event_log, last_cycle, det_used, settings_updates, trace,
          pc, stop_event, frame_q, frame_buf, got_data, result_q, serialized,
          results_taken, is_loading, running, new_settings_to_send,
          feed_pc, frames_read, cur_frame,
          enqueued, dequeued, errors, timeouts_after_stop, drops,
          workers, detection_proc, shutdown_attempts, pending_checks>>

\* the GUI's handle on its worker processes, across stop and start
lifevars == <<workers, detection_proc, shutdown_attempts, pending_checks>>

\* everything outside the worker's locals and its result messages
sysvars == <<pc, stop_event, frame_q, frame_buf, got_data, serialized, results_taken,
             is_loading, running, new_settings_to_send,
             feed_pc, frames_read, cur_frame,
             enqueued, dequeued, errors, timeouts_after_stop, drops,
             workers, detection_proc, shutdown_attempts, pending_checks>>

\* ------------------------------------------------------------------ bounds
MaxTracks == 2
MaxFrame == 4
MaxDetections == 3
MaxSparseFrame == 165
SparseTracks == 1
MaxSparseDetections == 4
MaxSettingsUpdates == 1
MaxScenarioFrame == 5
MaxScenarioDetections == 4
MaxFilterFrame == 2
MaxVideoFrames == 3
MaxQueueFrames == 6
MaxSystemDetections == 2
MaxSnapshots == 1
MaxTrackFrame == 34
MaxGaps == 2
MaxQueueDetections == 1
MaxResultFrames == 3
MaxResultDetections == 4
MaxWorkers == 3

\* ------------------------------------------------------- program constants
MAX_DISPLAY_WIDTH == 960
MAX_DISPLAY_HEIGHT == 720
tolerance == 25
max_inactive_frames == 60
StaticInactiveFrames == 30
MovingAfterFrames == 15
MovingThreshold == 300
DefaultMinTrackingFrames == 15
MaxPositions == 30
FramesPerSecond == 30
MinSizeRatio == 5
FrameQueueSize == 5
ShutdownPolls == 20

\* ----------------------------------------------------------------- helpers
Abs(x) == IF x < 0 THEN 0 - x ELSE x

\* floor of the square root of n, by bisection on lo..hi (lo * lo <= n < hi * hi)
RECURSIVE IsqrtIn(_, _, _)
IsqrtIn(n, lo, hi) ==
    IF hi - lo <= 1 THEN lo
    ELSE LET mid == (lo + hi) \div 2
         IN  IF mid * mid <= n THEN IsqrtIn(n, mid, hi) ELSE IsqrtIn(n, lo, mid)

\* a power of two whose square exceeds n
RECURSIVE IsqrtHi(_, _)
IsqrtHi(n, hi) == IF hi * hi > n THEN hi ELSE IsqrtHi(n, 2 * hi)

Isqrt(n) == IsqrtIn(n, 0, IsqrtHi(n, 1))

Get(d, key, default) == IF key \in DOMAIN d THEN d[key] ELSE default

None == [none |-> TRUE]

Truthy(v) == v # None

TrackIds == 1..MaxTracks

\* class names, as character sequences
Gol1 == <<"G", "o", "l", " ", "1">>
Gol2 == <<"G", "o", "l", " ", "2">>
Gol3 == <<"G", "o", "l", " ", "3">>
Gol4 == <<"G", "o", "l", " ", "4">>
Gol5 == <<"G", "o", "l", " ", "5">>
GolI == <<"G", "o", "l", " ", "I">>
GolII == <<"G", "o", "l", " ", "I", "I">>
GolIII == <<"G", "o", "l", " ", "I", "I", "I">>
GolIV == <<"G", "o", "l", " ", "I", "V">>
GolV == <<"G", "o", "l", " ", "V">>
Motor == <<"M", "o", "t", "o", "r">>
Unknown == <<"U", "n", "k", "n", "o", "w", "n">>
Car == <<"c", "a", "r">>
Person == <<"P", "e", "r", "s", "o", "n">>
PersonLower == <<"p", "e", "r", "s", "o", "n">>
Warehouse == <<"W", "a", "r", "e", "h", "o", "u", "s", "e">>

golongan_list == <<Gol1, Gol2, Gol3, Gol4, Gol5, Motor>>

GolonganSet == {golongan_list[i] : i \in DOMAIN golongan_list}

\* ------------------------------------------------------------ filter chain
UpperCase == <<"A", "B", "C", "D", "E", "F", "G", "H", "I", "J", "K", "L", "M",
               "N", "O", "P", "Q", "R", "S", "T", "U", "V", "W", "X", "Y", "Z">>
LowerCase == <<"a", "b", "c", "d", "e", "f", "g", "h", "i", "j", "k", "l", "m",
               "n", "o", "p", "q", "r", "s", "t", "u", "v", "w", "x", "y", "z">>

LowerOf ==
    [c \in {UpperCase[i] : i \in DOMAIN UpperCase} |->
        LowerCase[CHOOSE i \in DOMAIN UpperCase : UpperCase[i] = c]]

LowerChar(c) == IF c \in DOMAIN LowerOf THEN LowerOf[c] ELSE c

lower(s) == [i \in DOMAIN s |-> LowerChar(s[i])]

Contains(s, sub) ==
    \E i \in 0..(Len(s) - Len(sub)) :
        \A j \in 1..Len(sub) : s[i + j] = sub[j]

BUILDING_CLASSES ==
    << <<"h", "o", "u", "s", "e">>,
       <<"b", "u", "i", "l", "d", "i", "n", "g">>,
       <<"w", "a", "l", "l">>,
       <<"f", "e", "n", "c", "e">>,
       <<"s", "t", "r", "u", "c", "t", "u", "r", "e">>,
       <<"p", "e", "r", "s", "o", "n">>,
       <<"p", "e", "o", "p", "l", "e">> >>

\* variant: the match is case-sensitive
is_building_class_cased(class_name) ==
    \E i \in DOMAIN BUILDING_CLASSES : Contains(class_name, BUILDING_CLASSES[i])

is_building_class(class_name) ==
    \E i \in DOMAIN BUILDING_CLASSES : Contains(lower(class_name), BUILDING_CLASSES[i])

\* center of the box lies in the road area; h, w in pixels, margins in
\* thousandths, center in quarter pixels
is_in_road_area(box, shape, s) ==
    LET h == shape[1]
        w == shape[2]
        top == Get(s, "roi_margin_y_top", 300)
        bottom == Get(s, "roi_margin_y_bottom", 900)
        mx == Get(s, "roi_margin_x", 100)
        cx4 == box[1] + box[3]
        cy4 == box[2] + box[4]
    IN  /\ 4 * w * mx <= 1000 * cx4
        /\ 1000 * cx4 <= 4 * w * (1000 - mx)
        /\ 4 * h * top <= 1000 * cy4
        /\ 1000 * cy4 <= 4 * h * bottom

\* obj_area / frame_area as a fraction [num, den]
calculate_object_size_ratio(box, shape) ==
    [num |-> (box[3] - box[1]) * (box[4] - box[2]),
     den |-> 4 * shape[1] * shape[2]]

\* width / height if height > 0 else 0, as a fraction [num, den]
AspectRatio(box) ==
    IF box[4] - box[2] > 0
    THEN [num |-> box[3] - box[1], den |-> box[4] - box[2]]
    ELSE [num |-> 0, den |-> 1]

\* fraction r (den > 0) against a threshold t in thousandths:
\* 1000 num < t den and 1000 num > t den, by quotient and remainder
FracLT(r, t) == (1000 * r.num) \div r.den < t
FracGT(r, t) ==
    \/ (1000 * r.num) \div r.den > t
    \/ (1000 * r.num) \div r.den = t /\ (1000 * r.num) % r.den > 0

\* variant: the size limits apply to low-confidence detections only
is_likely_vehicle_confident(box, shape, confidence, s) ==
    LET size_ratio == calculate_object_size_ratio(box, shape)
        aspect_ratio == AspectRatio(box)
    IN  IF Get(s, "enable_roi_filter", TRUE) /\ ~is_in_road_area(box, shape, s)
        THEN [ok |-> FALSE, reason |-> "Outside ROI area"]
        ELSE IF confidence < 900 /\ FracGT(size_ratio, Get(s, "max_object_size_ratio", 300))
        THEN [ok |-> FALSE, reason |-> "Too large"]
        ELSE IF confidence < 900 /\ FracLT(size_ratio, MinSizeRatio)
        THEN [ok |-> FALSE, reason |-> "Too small"]
        ELSE IF FracLT(aspect_ratio, 500) \/ FracGT(aspect_ratio, 5000)
        THEN [ok |-> FALSE, reason |-> "Invalid aspect ratio"]
        ELSE [ok |-> TRUE, reason |-> "Valid vehicle"]

is_likely_vehicle(box, shape, confidence, s) ==
    LET size_ratio == calculate_object_size_ratio(box, shape)
        aspect_ratio == AspectRatio(box)
    IN  IF Get(s, "enable_roi_filter", TRUE) /\ ~is_in_road_area(box, shape, s)
        THEN [ok |-> FALSE, reason |-> "Outside ROI area"]
        ELSE IF FracGT(size_ratio, Get(s, "max_object_size_ratio", 300))
        THEN [ok |-> FALSE, reason |-> "Too large"]
        ELSE IF FracLT(size_ratio, MinSizeRatio)
        THEN [ok |-> FALSE, reason |-> "Too small"]
        ELSE IF FracLT(aspect_ratio, 500) \/ FracGT(aspect_ratio, 5000)
        THEN [ok |-> FALSE, reason |-> "Invalid aspect ratio"]
        ELSE [ok |-> TRUE, reason |-> "Valid vehicle"]

\* variant: the global threshold applies to every class
get_class_specific_confidence_global(class_name, s) ==
    Get(s, "confidence_threshold", 500)

get_class_specific_confidence(class_name, s) ==
    Get(Get(s, "class_confidence", <<>>), class_name, Get(s, "confidence_threshold", 500))

size_limits ==
    (Motor :> <<5, 150>>) @@ (GolI :> <<10, 250>>) @@ (GolII :> <<15, 300>>) @@
    (GolIII :> <<20, 350>>) @@ (GolIV :> <<30, 500>>) @@ (GolV :> <<40, 600>>) @@
    (Gol1 :> <<10, 250>>) @@ (Gol2 :> <<15, 300>>) @@ (Gol3 :> <<20, 350>>) @@
    (Gol4 :> <<30, 500>>) @@ (Gol5 :> <<40, 600>>)

aspect_limits ==
    (Motor :> <<800, 2500>>) @@ (GolI :> <<1200, 2800>>) @@ (GolII :> <<1200, 2800>>) @@
    (GolIII :> <<1200, 2800>>) @@ (GolIV :> <<1500, 4000>>) @@ (GolV :> <<1500, 5000>>) @@
    (Gol1 :> <<1200, 2800>>) @@ (Gol2 :> <<1200, 2800>>) @@ (Gol3 :> <<1200, 2800>>) @@
    (Gol4 :> <<1500, 4000>>) @@ (Gol5 :> <<1500, 5000>>)

validate_class_detection(class_name, confidence, box, shape, s) ==
    LET size_ratio == calculate_object_size_ratio(box, shape)
        aspect_ratio == AspectRatio(box)
    IN  IF confidence < get_class_specific_confidence(class_name, s)
        THEN [ok |-> FALSE, reason |-> "Confidence below threshold"]
        ELSE IF /\ class_name \in DOMAIN size_limits
                /\ \/ FracLT(size_ratio, size_limits[class_name][1])
                   \/ FracGT(size_ratio, size_limits[class_name][2])
        THEN [ok |-> FALSE, reason |-> "Size ratio outside valid range"]
        ELSE IF /\ class_name \in DOMAIN aspect_limits
                /\ \/ FracLT(aspect_ratio, aspect_limits[class_name][1])
                   \/ FracGT(aspect_ratio, aspect_limits[class_name][2])
        THEN [ok |-> FALSE, reason |-> "Aspect ratio outside valid range"]
        ELSE [ok |-> TRUE, reason |-> "Valid detection"]

\* one detection through the three filters of the loop body: the filters
\* that were called, in order, and whether the detection was appended
FilterChain(det, s, shape) ==
    IF is_building_class(det.class_name)
    THEN [accepted |-> FALSE, evaluated |-> <<"is_building_class">>]
    ELSE IF ~is_likely_vehicle(det.box, shape, det.confidence, s).ok
    THEN [accepted |-> FALSE, evaluated |-> <<"is_building_class", "is_likely_vehicle">>]
    ELSE [accepted |-> validate_class_detection(det.class_name, det.confidence,
                                                det.box, shape, s).ok,
          evaluated |-> <<"is_building_class", "is_likely_vehicle",
                          "validate_class_detection">>]

DetectionPasses(det, s, shape) == FilterChain(det, s, shape).accepted

enhanced_detection_validation(results, s, shape) ==
    SelectSeq(results, LAMBDA det : DetectionPasses(det, s, shape))

\* -------------------------------------------------------------- track store
initialize_vehicle_state(track_id, box, golongan, line, fnum) ==
    [line |-> line,
     golongan |-> golongan,
     counted |-> FALSE,
     last_seen |-> fnum,
     positions |-> << <<box[1] + box[3], box[2] + box[4]>> >>,
     first_seen |-> fnum,
     is_moving |-> FALSE,
     total_distance |-> 0,
     valid_detections |-> 0]

\* euclidean distance of two centers, in quarter pixels
calculate_distance(pos1, pos2) ==
    Isqrt((pos1[1] - pos2[1]) * (pos1[1] - pos2[1]) + (pos1[2] - pos2[2]) * (pos1[2] - pos2[2]))

\* variant: the cap keeps the oldest entries
LastN_oldest(seq, n) == IF Len(seq) > n THEN SubSeq(seq, 1, n) ELSE seq

LastN(seq, n) == IF Len(seq) > n THEN SubSeq(seq, Len(seq) - n + 1, Len(seq)) ELSE seq

\* variant: the update re-arms the record for counting
update_vehicle_movement_rearm(vehicle_state, new_box, fnum) ==
    LET new_position == <<new_box[1] + new_box[3], new_box[2] + new_box[4]>>
        positions == Append(vehicle_state.positions, new_position)
        total == vehicle_state.total_distance
                 + calculate_distance(positions[Len(positions) - 1], new_position)
        frames_tracked == fnum - vehicle_state.first_seen
    IN  [vehicle_state EXCEPT
            !.positions = LastN(positions, MaxPositions),
            !.last_seen = fnum,
            !.valid_detections = @ + 1,
            !.total_distance = total,
            !.counted = FALSE,
            !.is_moving = IF frames_tracked > MovingAfterFrames
                          THEN 1000 * total > MovingThreshold * 4 * frames_tracked
                          ELSE @]

update_vehicle_movement(vehicle_state, new_box, fnum) ==
    LET new_position == <<new_box[1] + new_box[3], new_box[2] + new_box[4]>>
        positions == Append(vehicle_state.positions, new_position)
        total == IF Len(positions) > 1
                 THEN vehicle_state.total_distance
                      + calculate_distance(positions[Len(positions) - 1], new_position)
                 ELSE vehicle_state.total_distance
        frames_tracked == fnum - vehicle_state.first_seen
    IN  [vehicle_state EXCEPT
            !.positions = LastN(positions, MaxPositions),
            !.last_seen = fnum,
            !.valid_detections = @ + 1,
            !.total_distance = total,
            !.is_moving = IF frames_tracked > MovingAfterFrames
                          THEN 1000 * total > MovingThreshold * 4 * frames_tracked
                          ELSE @]

\* ------------------------------------------------------- movement validator
is_valid_vehicle_movement(vehicle_state, s, min_tracking_frames) ==
    LET frames_tracked == vehicle_state.last_seen - vehicle_state.first_seen
        min_movement == Get(s, "min_movement_threshold", 300)
    IN  IF ~Get(s, "enable_movement_validation", TRUE) THEN TRUE
        ELSE IF frames_tracked < min_tracking_frames THEN TRUE
        ELSE IF /\ frames_tracked > min_tracking_frames
                /\ 1000 * vehicle_state.total_distance < min_movement * 4 * frames_tracked
        THEN FALSE
        ELSE TRUE

\* ----------------------------------------------------- line-crossing counter
\* int(v * (n / d)) for v, n >= 0
IntScale(v, n, d) == (v * n) \div d

LineOffsetScaled(s, shape) == IntScale(s.line_offset, shape[1], MAX_DISPLAY_HEIGHT)

Line1Pos(s, shape) ==
    IF s.line_orientation = "Horizontal"
    THEN IntScale(s.line1_y, shape[1], MAX_DISPLAY_HEIGHT)
    ELSE IntScale(s.line1_x, shape[2], MAX_DISPLAY_WIDTH)

Line2Pos(s, shape) == Line1Pos(s, shape) + LineOffsetScaled(s, shape)

\* int(box[3]) or int((box[0] + box[2]) / 2), in pixels
TriggerPoint(box, s) ==
    IF s.line_orientation = "Horizontal"
    THEN box[4] \div 2
    ELSE (box[1] + box[3]) \div 4

\* variant: the tolerance is taken as the full width of the band around a line
NearLine_band(trigger_point, line_pos) == 2 * Abs(trigger_point - line_pos) < tolerance

NearLine(trigger_point, line_pos) == Abs(trigger_point - line_pos) < tolerance

Remove(store, track_id) == [t \in DOMAIN store \ {track_id} |-> store[t]]

Put(store, track_id, rec) ==
    [t \in DOMAIN store \cup {track_id} |-> IF t = track_id THEN rec ELSE store[t]]

\* variant: every confirmed crossing bumps the In counter
ConfirmDirection_always_in(st, track_id, direction, fnum) ==
    LET vehicle_golongan == st.vehicle_states[track_id].golongan
        new_row == [Timestamp |-> fnum \div FramesPerSecond,
                    Vehicle_ID |-> track_id,
                    Class |-> vehicle_golongan,
                    Direction |-> direction]
    IN  [vehicle_states |-> [st.vehicle_states EXCEPT ![track_id].counted = TRUE],
         vehicle_counts |-> IF vehicle_golongan # Unknown
                            THEN [st.vehicle_counts EXCEPT ![vehicle_golongan]["In"] = @ + 1]
                            ELSE st.vehicle_counts,
         pending_detections |-> Append(st.pending_detections, new_row)]

\* direction_confirmed branch: flag the record, bump the class counter,
\* append the row
ConfirmDirection(st, track_id, direction, fnum) ==
    LET vehicle_golongan == st.vehicle_states[track_id].golongan
        new_row == [Timestamp |-> fnum \div FramesPerSecond,
                    Vehicle_ID |-> track_id,
                    Class |-> vehicle_golongan,
                    Direction |-> direction]
    IN  [vehicle_states |-> [st.vehicle_states EXCEPT ![track_id].counted = TRUE],
         vehicle_counts |-> IF vehicle_golongan # Unknown
                            THEN [st.vehicle_counts EXCEPT ![vehicle_golongan][direction] = @ + 1]
                            ELSE st.vehicle_counts,
         pending_detections |-> Append(st.pending_detections, new_row)]

\* variant: the two directions are swapped
CheckCounting_swapped(st, det, s, line1_pos, line2_pos, fnum) ==
    LET initial_line == st.vehicle_states[det.track_id].line
        trigger_point == TriggerPoint(det.box, s)
    IN  IF initial_line = 1 /\ NearLine(trigger_point, line2_pos)
        THEN ConfirmDirection(st, det.track_id, "Out", fnum)
        ELSE IF initial_line = 2 /\ NearLine(trigger_point, line1_pos)
        THEN ConfirmDirection(st, det.track_id, "In", fnum)
        ELSE st

\* "Check untuk counting": a known, uncounted record
CheckCounting(st, det, s, line1_pos, line2_pos, fnum) ==
    LET initial_line == st.vehicle_states[det.track_id].line
        trigger_point == TriggerPoint(det.box, s)
    IN  IF initial_line = 1 /\ NearLine(trigger_point, line2_pos)
        THEN ConfirmDirection(st, det.track_id, "In", fnum)
        ELSE IF initial_line = 2 /\ NearLine(trigger_point, line1_pos)
        THEN ConfirmDirection(st, det.track_id, "Out", fnum)
        ELSE st

\* variant: line2 is tested before line1
InitializeNew_line2_first(st, det, s, line1_pos, line2_pos, fnum) ==
    LET golongan == IF det.class_name \in DOMAIN st.vehicle_counts
                    THEN det.class_name ELSE Unknown
        trigger_point == TriggerPoint(det.box, s)
    IN  IF NearLine(trigger_point, line2_pos)
        THEN [st EXCEPT !.vehicle_states =
                 Put(@, det.track_id, initialize_vehicle_state(det.track_id, det.box, golongan, 2, fnum))]
        ELSE IF NearLine(trigger_point, line1_pos)
        THEN [st EXCEPT !.vehicle_states =
                 Put(@, det.track_id, initialize_vehicle_state(det.track_id, det.box, golongan, 1, fnum))]
        ELSE st

\* variant: an id that is not in the store gets a record wherever it is
InitializeNew_anywhere(st, det, s, line1_pos, line2_pos, fnum) ==
    LET golongan == IF det.class_name \in DOMAIN st.vehicle_counts
                    THEN det.class_name ELSE Unknown
        trigger_point == TriggerPoint(det.box, s)
    IN  IF NearLine(trigger_point, line2_pos) /\ ~NearLine(trigger_point, line1_pos)
        THEN [st EXCEPT !.vehicle_states =
                 Put(@, det.track_id, initialize_vehicle_state(det.track_id, det.box, golongan, 2, fnum))]
        ELSE [st EXCEPT !.vehicle_states =
                 Put(@, det.track_id, initialize_vehicle_state(det.track_id, det.box, golongan, 1, fnum))]

\* "Initialize new vehicle state": an id that is not in the store
InitializeNew(st, det, s, line1_pos, line2_pos, fnum) ==
    LET golongan == IF det.class_name \in DOMAIN st.vehicle_counts
                    THEN det.class_name ELSE Unknown
        trigger_point == TriggerPoint(det.box, s)
    IN  IF NearLine(trigger_point, line1_pos)
        THEN [st EXCEPT !.vehicle_states =
                 Put(@, det.track_id, initialize_vehicle_state(det.track_id, det.box, golongan, 1, fnum))]
        ELSE IF NearLine(trigger_point, line2_pos)
        THEN [st EXCEPT !.vehicle_states =
                 Put(@, det.track_id, initialize_vehicle_state(det.track_id, det.box, golongan, 2, fnum))]
        ELSE st

\* variant: a record is created first and the counting check then runs on it
\* in the same pass ("if" in place of "elif")
ProcessDetection_init_then_count(st, det, s, line1_pos, line2_pos, fnum) ==
    LET track_id == det.track_id
        known == track_id \in DOMAIN st.vehicle_states
        updated == update_vehicle_movement(st.vehicle_states[track_id], det.box, fnum)
        st1 == [st EXCEPT !.vehicle_states[track_id] = updated]
        st2 == InitializeNew(st, det, s, line1_pos, line2_pos, fnum)
    IN  IF known
        THEN IF ~is_valid_vehicle_movement(updated, s, DefaultMinTrackingFrames)
             THEN [st EXCEPT !.vehicle_states = Remove(@, track_id)]
             ELSE IF ~updated.counted
             THEN CheckCounting(st1, det, s, line1_pos, line2_pos, fnum)
             ELSE st1
        ELSE IF track_id \in DOMAIN st2.vehicle_states
        THEN CheckCounting(st2, det, s, line1_pos, line2_pos, fnum)
        ELSE st2

\* variant: the counting check runs before the movement check
ProcessDetection_count_then_validate(st, det, s, line1_pos, line2_pos, fnum) ==
    LET track_id == det.track_id
        known == track_id \in DOMAIN st.vehicle_states
        updated == update_vehicle_movement(st.vehicle_states[track_id], det.box, fnum)
        st1 == [st EXCEPT !.vehicle_states[track_id] = updated]
        st2 == IF ~updated.counted
               THEN CheckCounting(st1, det, s, line1_pos, line2_pos, fnum)
               ELSE st1
    IN  IF known
        THEN IF ~is_valid_vehicle_movement(updated, s, DefaultMinTrackingFrames)
             THEN [st2 EXCEPT !.vehicle_states = Remove(@, track_id)]
             ELSE st2
        ELSE InitializeNew(st, det, s, line1_pos, line2_pos, fnum)

\* body of "for detection in valid_detections"
ProcessDetection(st, det, s, line1_pos, line2_pos, fnum) ==
    LET track_id == det.track_id
        known == track_id \in DOMAIN st.vehicle_states
        updated == update_vehicle_movement(st.vehicle_states[track_id], det.box, fnum)
        st1 == [st EXCEPT !.vehicle_states[track_id] = updated]
    IN  IF known
        THEN IF ~is_valid_vehicle_movement(updated, s, DefaultMinTrackingFrames)
             THEN [st EXCEPT !.vehicle_states = Remove(@, track_id)]
             ELSE IF ~updated.counted
             THEN CheckCounting(st1, det, s, line1_pos, line2_pos, fnum)
             ELSE st1
        ELSE InitializeNew(st, det, s, line1_pos, line2_pos, fnum)

RECURSIVE ProcessDetections(_, _, _, _, _, _)
ProcessDetections(st, dets, s, line1_pos, line2_pos, fnum) ==
    IF dets = <<>> THEN st
    ELSE ProcessDetections(ProcessDetection(st, Head(dets), s, line1_pos, line2_pos, fnum),
                           Tail(dets), s, line1_pos, line2_pos, fnum)

\* --------------------------------------------------------- stale track reaper
\* variant: both thresholds are inclusive
IsInactive_inclusive(data, fnum) ==
    LET frames_inactive == fnum - data.last_seen
    IN  \/ frames_inactive >= max_inactive_frames
        \/ frames_inactive >= StaticInactiveFrames /\ ~data.is_moving

IsInactive(data, fnum) ==
    LET frames_inactive == fnum - data.last_seen
    IN  \/ frames_inactive > max_inactive_frames
        \/ frames_inactive > StaticInactiveFrames /\ ~data.is_moving

CleanupInactive(store, fnum) ==
    [t \in {u \in DOMAIN store : ~IsInactive(store[u], fnum)} |-> store[t]]

\* ------------------------------------------------------- inputs of the model
\* frame.shape[:2] = (height, width) of the video source
FrameShapes == {<<720, 960>>, <<720, 1280>>}

S1 == [confidence_threshold |-> 500, line_offset |-> 50,
       line_orientation |-> "Horizontal", line1_y |-> 300, line1_x |-> 455]

S2 == [confidence_threshold |-> 500, line_offset |-> 40,
       line_orientation |-> "Horizontal", line1_y |-> 300, line1_x |-> 455,
       enable_roi_filter |-> TRUE, max_object_size_ratio |-> 300,
       enable_movement_validation |-> TRUE, min_movement_threshold |-> 500,
       min_tracking_frames |-> 12,
       class_confidence |-> (Motor :> 400) @@ (Gol1 :> 500)]

S3 == [confidence_threshold |-> 200, line_offset |-> 50,
       line_orientation |-> "Vertical", line1_y |-> 300, line1_x |-> 455,
       enable_movement_validation |-> FALSE]

SettingsSet == {S1, S2, S3}

\* a 120 x 60 px box on the diagonal of a vehicle driving down and to the
\* right: bottom edge 298 + 1.5 k px, center x 440 + 2 k px; two such boxes
\* are 2.5 |k - k'| px apart
BoxAt(k) == <<760 + 4 * k, 476 + 3 * k, 1000 + 4 * k, 596 + 3 * k>>

\* a 120 x 60 px box with bottom edge at b px
BoxBottom(b) == <<760, 2 * b - 120, 1000, 2 * b>>

Detection(track_id, class_name, confidence, box) ==
    [track_id |-> track_id, class_name |-> class_name,
     confidence |-> confidence, box |-> box]

DetKinds ==
    {<<Gol1, 900, BoxAt(k)>> : k \in {0, 14, 36}}
    \cup {<<Car, 900, BoxAt(0)>>, <<Person, 900, BoxAt(0)>>}

ScenarioSamples == <<298, 301, 330, 352>>

ScenarioKinds == {<<Gol1, 900, BoxBottom(ScenarioSamples[i])>> : i \in DOMAIN ScenarioSamples}

\* the oracle's output for one frame: at most one detection per track id
DetLists(ids, kinds) ==
    {<<>>}
    \cup {<<Detection(t, k[1], k[2], k[3])>> : t \in ids, k \in kinds}
    \cup {<<Detection(t, k[1], k[2], k[3]), Detection(u, m[1], m[2], m[3])>> :
            t \in ids, u \in ids, k \in kinds, m \in kinds}

DistinctIds(dets) ==
    \A i, j \in DOMAIN dets : i # j => dets[i].track_id # dets[j].track_id

\* ------------------------------------------------------------------- cycle
\* if new_settings: settings = new_settings
ActiveSettings(old_settings, new_settings) ==
    IF Truthy(new_settings) THEN new_settings ELSE old_settings

\* model.track(frame, conf=...): of the objects in the frame, the oracle
\* reports those at or above the confidence floor
model_track(objects, conf) == SelectSeq(objects, LAMBDA det : det.confidence >= conf)

\* variant: the line positions are those of the snapshot that was active
\* before the dequeue
CycleResult_stale_lines(old_settings, store, counts, fnum, shape, new_settings, objects) ==
    LET s == ActiveSettings(old_settings, new_settings)
        l == IF "line_offset" \in DOMAIN old_settings /\ "line1_y" \in DOMAIN old_settings
             THEN old_settings ELSE s
        line1_pos == Line1Pos(l, shape)
        line2_pos == Line2Pos(l, shape)
        results == model_track(objects, Get(s, "confidence_threshold", 500))
        valid_detections == enhanced_detection_validation(results, s, shape)
        st0 == [vehicle_states |-> store, vehicle_counts |-> counts,
                pending_detections |-> <<>>]
        st1 == ProcessDetections(st0, valid_detections, s, line1_pos, line2_pos, fnum)
    IN  [settings |-> s,
         results |-> results,
         valid_detections |-> valid_detections,
         after_loop |-> st1.vehicle_states,
         vehicle_states |-> CleanupInactive(st1.vehicle_states, fnum),
         vehicle_counts |-> st1.vehicle_counts,
         new_rows |-> st1.pending_detections]

\* state of one pass of the worker loop over a dequeued (frame, new_settings)
CycleResult(old_settings, store, counts, fnum, shape, new_settings, objects) ==
    LET s == ActiveSettings(old_settings, new_settings)
        line1_pos == Line1Pos(s, shape)
        line2_pos == Line2Pos(s, shape)
        results == model_track(objects, Get(s, "confidence_threshold", 500))
        valid_detections == enhanced_detection_validation(results, s, shape)
        st0 == [vehicle_states |-> store, vehicle_counts |-> counts,
                pending_detections |-> <<>>]
        st1 == ProcessDetections(st0, valid_detections, s, line1_pos, line2_pos, fnum)
    IN  [settings |-> s,
         results |-> results,
         valid_detections |-> valid_detections,
         after_loop |-> st1.vehicle_states,
         vehicle_states |-> CleanupInactive(st1.vehicle_states, fnum),
         vehicle_counts |-> st1.vehicle_counts,
         new_rows |-> st1.pending_detections]

LogRows(rows, fnum) ==
    [i \in DOMAIN rows |-> [frame |-> fnum, row |-> rows[i]]]

\* per track id, the (frame, trigger point) samples the worker has processed
TraceAfter(valid, s, fnum) ==
    [t \in DOMAIN trace |->
        IF \E i \in DOMAIN valid : valid[i].track_id = t
        THEN LET i == CHOOSE j \in DOMAIN valid : valid[j].track_id = t
             IN  Append(trace[t], <<fnum, TriggerPoint(valid[i].box, s)>>)
        ELSE trace[t]]

\* variant: the counts are sent with every frame
CycleMessages_every_cycle(fnum, counts, new_rows) ==
    <<[type |-> "frame", image |-> fnum],
      [type |-> "data_update", counts |-> counts, new_rows |-> new_rows]>>

\* messages of one completed cycle: the annotated frame, then the counts and
\* the new rows if the cycle counted something
CycleMessages(fnum, counts, new_rows) ==
    <<[type |-> "frame", image |-> fnum]>>
    \o (IF new_rows # <<>>
        THEN <<[type |-> "data_update", counts |-> counts, new_rows |-> new_rows]>>
        ELSE <<>>)

RunCycle(new_settings, objects, traced) ==
    \E r \in {CycleResult(settings, vehicle_states, vehicle_counts, frame_num,
                            frame_shape, new_settings, objects)} :
        /\ settings' = r.settings
        /\ vehicle_states' = r.vehicle_states
        /\ vehicle_counts' = r.vehicle_counts
        /\ frame_num' = frame_num + 1
        /\ event_log' = event_log \o LogRows(r.new_rows, frame_num)
        /\ result_q' = result_q \o CycleMessages(frame_num, r.vehicle_counts, r.new_rows)
        /\ last_cycle' = [frame |-> frame_num,
                          payload |-> new_settings,
                          previous |-> settings,
                          stopped |-> stop_event,
                          results |-> r.results,
                          evaluated |-> [i \in DOMAIN r.results |->
                              FilterChain(r.results[i], r.settings, frame_shape).evaluated],
                          valid |-> r.valid_detections,
                          before |-> vehicle_states,
                          after_loop |-> r.after_loop]
        /\ det_used' = det_used + Len(objects)
        /\ settings_updates' = settings_updates + (IF Truthy(new_settings) THEN 1 ELSE 0)
        /\ trace' = IF traced
                     THEN TraceAfter(r.valid_detections, r.settings, frame_num)
                     ELSE trace
        /\ UNCHANGED frame_shape

\* objects the oracle may see in the frame now, within a budget of objects
Feed(ids, kinds, budget) ==
    {objects \in DetLists(ids, kinds) :
        DistinctIds(objects) /\ det_used + Len(objects) <= budget}

\* the worker processes one frame that carries no settings
Cycle ==
    /\ frame_num < MaxFrame
    /\ \E objects \in Feed(TrackIds, DetKinds, MaxDetections) : RunCycle(None, objects, FALSE)
    /\ UNCHANGED sysvars

\* the worker processes one frame that carries a new settings snapshot
CycleWithSettings ==
    /\ frame_num < MaxFrame
    /\ settings_updates < MaxSettingsUpdates
    /\ \E new_settings \in SettingsSet \ {settings}, objects \in Feed(TrackIds, DetKinds, MaxDetections) :
          RunCycle(new_settings, objects, FALSE)
    /\ UNCHANGED sysvars

\* the worker's locals right before its loop
Locals ==
    /\ vehicle_states = <<>>
    /\ vehicle_counts = [g \in GolonganSet |-> [In |-> 0, Out |-> 0]]
    /\ frame_num = 0
    /\ event_log = <<>>
    /\ last_cycle = [frame |-> -1, payload |-> None, previous |-> None, stopped |-> FALSE,
                     results |-> <<>>, evaluated |-> <<>>,
                     valid |-> <<>>, before |-> <<>>, after_loop |-> <<>>]
    /\ det_used = 0
    /\ settings_updates = 0
    /\ trace = [t \in TrackIds |-> <<>>]

\* the handle on worker processes as the app is constructed
LifeIdle ==
    /\ workers = <<>>
    /\ detection_proc = 0
    /\ shutdown_attempts = 0
    /\ pending_checks = {}

\* the worker has built the oracle and entered its loop; the frames it
\* dequeues are the inputs of the cycle actions
InLoop ==
    /\ LifeIdle
    /\ pc = "loop"
    /\ stop_event = FALSE
    /\ frame_q = <<>>
    /\ frame_buf = <<>>
    /\ got_data = None
    /\ result_q = <<[type |-> "model_ready"]>>
    /\ serialized = <<[type |-> "model_ready"]>>
    /\ results_taken = 1
    /\ is_loading = FALSE
    /\ running = TRUE
    /\ new_settings_to_send = None
    /\ feed_pc = "read"
    /\ frames_read = 0
    /\ cur_frame = 0
    /\ enqueued = <<>>
    /\ dequeued = <<>>
    /\ errors = <<>>
    /\ timeouts_after_stop = 0
    /\ drops = <<>>

Constructed ==
    /\ Locals
    /\ InLoop

Init ==
    /\ frame_shape \in FrameShapes
    /\ settings \in SettingsSet
    /\ Constructed

Next == Cycle \/ CycleWithSettings

Spec == Init /\ [][Next]_vars

\* ------------------------------------------------------------ sparse traffic
\* A long stream in which the oracle reports objects only in the frames of
\* ActiveFrames, and that ends once nothing is tracked and nothing more can
\* arrive.
ActiveFrames == {0, 1, 20, 33, 34, 84, 100}

SparseIds == 1..SparseTracks

SparseKinds == {<<Gol1, 900, BoxAt(k)>> : k \in {0, 1, 14, 36}}

StreamOpen ==
    \/ vehicle_states # <<>>
    \/ det_used < MaxSparseDetections /\ \E f \in ActiveFrames : f >= frame_num

SparseFeed ==
    IF frame_num \in ActiveFrames THEN Feed(SparseIds, SparseKinds, MaxSparseDetections) ELSE {<<>>}

SparseCycle ==
    /\ frame_num < MaxSparseFrame
    /\ StreamOpen
    /\ \E objects \in SparseFeed : RunCycle(None, objects, FALSE)
    /\ UNCHANGED sysvars

\* sparse streams come from one 960 x 720 source
InitSparse ==
    /\ Init
    /\ frame_shape = <<720, 960>>

NextSparse == SparseCycle

SpecSparse == InitSparse /\ [][NextSparse]_vars

\* ------------------------------------------------------- four-sample scenario
\* Settings of the scenario (line1 at y = 300, line2 at y = 350, Horizontal)
\* stay fixed; each track is detected with its bottom edge at one of the
\* scenario's samples, and the samples of each track are recorded.
ScenarioCycle ==
    /\ frame_num < MaxScenarioFrame
    /\ \E objects \in Feed(TrackIds, ScenarioKinds, MaxScenarioDetections) :
          RunCycle(None, objects, TRUE)
    /\ UNCHANGED sysvars

InitScenario ==
    /\ Init
    /\ frame_shape = <<720, 960>>
    /\ settings = S1

NextScenario == ScenarioCycle

SpecScenario == InitScenario /\ [][NextScenario]_vars

\* ---------------------------------------------------------- filter inputs
\* One detection per frame, drawn from class names on and off the blacklist
\* and the class tables, boxes inside and outside every size, aspect and ROI
\* limit, and confidences around the thresholds.
FilterShapes == {<<1000, 1000>>, <<720, 960>>}

F2 == [confidence_threshold |-> 500, line_offset |-> 50,
       line_orientation |-> "Horizontal", line1_y |-> 300, line1_x |-> 455,
       enable_roi_filter |-> FALSE, max_object_size_ratio |-> 300,
       class_confidence |-> (Car :> 700) @@ (Motor :> 400)]

F3 == [confidence_threshold |-> 200, line_offset |-> 50,
       line_orientation |-> "Horizontal", line1_y |-> 300, line1_x |-> 455,
       enable_roi_filter |-> TRUE, max_object_size_ratio |-> 500]

FilterSettings == {S1, F2, F3}

\* 800 x 500 px around (500, 500): 40% of a 1000 x 1000 frame
BigBox == <<200, 500, 1800, 1500>>

\* 20 x 10 px around (440, 268)
TinyBox == <<860, 526, 900, 546>>

\* 120 x 60 px around (440, 100), above the road area
TopBox == <<760, 140, 1000, 260>>

\* 30 x 200 px around (440, 268)
TallBox == <<850, 336, 910, 736>>

FilterBoxes == {BoxAt(0), BigBox, TinyBox, TopBox, TallBox}

FilterConfidences == {0, 450, 600, 900, 1000}

FilterClasses == {PersonLower, Person, Warehouse, Car, Gol1, Gol5, Motor}

FilterKinds == {<<c, conf, b>> : c \in FilterClasses, conf \in FilterConfidences, b \in FilterBoxes}

FilterFeed == {<<Detection(1, k[1], k[2], k[3])>> : k \in FilterKinds}

FilterCycle ==
    /\ frame_num < MaxFilterFrame
    /\ \E objects \in FilterFeed : RunCycle(None, objects, FALSE)
    /\ UNCHANGED sysvars

InitFilter ==
    /\ frame_shape \in FilterShapes
    /\ settings \in FilterSettings
    /\ Constructed

NextFilter == FilterCycle

SpecFilter == InitFilter /\ [][NextFilter]_vars

\* ------------------------------------------------------------- long tracks
\* One vehicle per stream, detected in every frame but for at most MaxGaps
\* frames: track 1 creeps (its box grows downwards by half a pixel per frame,
\* so its center moves 0.25 px per frame), track 2 drives (2.5 px per frame).
T2 == [confidence_threshold |-> 500, line_offset |-> 50,
       line_orientation |-> "Horizontal", line1_y |-> 300, line1_x |-> 455,
       enable_movement_validation |-> TRUE, min_movement_threshold |-> 100]

TrackSettings == {S1, T2, S3}

CreepBox(k) == <<760, 476, 1000, 596 + k>>

TrackBox(t, k) == IF t = 1 THEN CreepBox(k) ELSE BoxAt(k)

\* ids that may be detected now: any before the first detection, then the
\* one that was detected first
StreamIds == {t \in TrackIds : \A u \in TrackIds \ {t} : trace[u] = <<>>}

TrackFeed ==
    {<<Detection(t, Gol1, 900, TrackBox(t, frame_num))>> : t \in StreamIds}
    \cup (IF frame_num - det_used < MaxGaps THEN {<<>>} ELSE {})

TrackCycle ==
    /\ frame_num < MaxTrackFrame
    /\ \E objects \in TrackFeed : RunCycle(None, objects, TRUE)
    /\ UNCHANGED sysvars

InitTrack ==
    /\ frame_shape = <<720, 960>>
    /\ settings \in TrackSettings
    /\ Constructed

NextTrack == TrackCycle

SpecTrack == InitTrack /\ [][NextTrack]_vars

\* ------------------------------------------------------- worker and producer
\* One run of the worker process next to the GUI that started it: the GUI's
\* result polling and stop button, and its producer thread reading a video
\* file of MaxVideoFrames frames.
workerlocals == <<vehicle_states, vehicle_counts, frame_num, event_log, last_cycle,
                  det_used, settings_updates, trace>>

guivars == <<results_taken, is_loading, running, new_settings_to_send>>

feedvars == <<feed_pc, frames_read, cur_frame, enqueued, drops>>

Without(s, key) == [k \in DOMAIN s \ {key} |-> s[k]]

\* settings dicts a caller may hand to the worker
SystemSettings == {S1, S2, Without(S1, "line_offset"), Without(S1, "line1_y")}

SystemKinds == {<<Gol1, 900, BoxAt(k)>> : k \in {0, 14, 36}}

\* the subscripts settings['...'] of a cycle all find their key
HasLineKeys(s) ==
    /\ "line_offset" \in DOMAIN s
    /\ "line_orientation" \in DOMAIN s
    /\ IF s.line_orientation = "Horizontal"
       THEN "line1_y" \in DOMAIN s
       ELSE "line1_x" \in DOMAIN s

\* variant: the failure branch does not return
LoadModel_fallthrough ==
    /\ pc = "load"
    /\ \/ result_q' = Append(result_q, [type |-> "model_ready"])
       \/ result_q' = result_q \o <<[type |-> "model_error"], [type |-> "model_ready"]>>
    /\ pc' = "loop"
    /\ UNCHANGED <<lifevars, frame_shape, settings, workerlocals, guivars, feedvars, serialized,
                   stop_event, frame_q, frame_buf, got_data, dequeued, errors,
                   timeouts_after_stop>>

\* try: model = YOLO(...); put model_ready / except: put model_error; return
LoadModel ==
    /\ pc = "load"
    /\ \/ /\ result_q' = Append(result_q, [type |-> "model_ready"])
          /\ pc' = "loop"
       \/ /\ result_q' = Append(result_q, [type |-> "model_error"])
          /\ pc' = "done"
    /\ UNCHANGED <<lifevars, frame_shape, settings, workerlocals, guivars, feedvars, serialized,
                   stop_event, frame_q, frame_buf, got_data, dequeued, errors,
                   timeouts_after_stop>>

\* variant: the loop does not test the flag
WhileCheck_unchecked ==
    /\ pc = "loop"
    /\ pc' = "get"
    /\ UNCHANGED <<lifevars, frame_shape, settings, workerlocals, guivars, feedvars, result_q,
                   serialized, stop_event, frame_q, frame_buf, got_data, dequeued, errors,
                   timeouts_after_stop>>

\* while not stop_event.is_set()
WhileCheck ==
    /\ pc = "loop"
    /\ pc' = IF stop_event THEN "done" ELSE "get"
    /\ UNCHANGED <<lifevars, frame_shape, settings, workerlocals, guivars, feedvars, result_q,
                   serialized, stop_event, frame_q, frame_buf, got_data, dequeued, errors,
                   timeouts_after_stop>>

\* frame_q.get(timeout=0.05) raises Empty; except Empty: continue
GetTimeout ==
    /\ pc = "get"
    /\ frame_q = <<>>
    /\ pc' = "loop"
    /\ timeouts_after_stop' = IF stop_event /\ timeouts_after_stop < 2
                                THEN timeouts_after_stop + 1
                                ELSE timeouts_after_stop
    /\ UNCHANGED <<lifevars, frame_shape, settings, workerlocals, guivars, feedvars, result_q,
                   serialized, stop_event, frame_q, frame_buf, got_data, dequeued, errors>>

\* variant: the newest readable entry is returned
Dequeue_newest ==
    /\ pc = "get"
    /\ frame_q # <<>>
    /\ frame_q' = SubSeq(frame_q, 1, Len(frame_q) - 1)
    /\ got_data' = frame_q[Len(frame_q)]
    /\ dequeued' = Append(dequeued, [frame |-> frame_q[Len(frame_q)].frame,
                                     stopped |-> stop_event])
    /\ pc' = "cycle"
    /\ UNCHANGED <<lifevars, frame_shape, settings, workerlocals, guivars, feedvars, result_q,
                   serialized, stop_event, frame_buf, errors, timeouts_after_stop>>

\* got_data = frame_q.get(timeout=0.05) returns the oldest readable entry
Dequeue ==
    /\ pc = "get"
    /\ frame_q # <<>>
    /\ frame_q' = Tail(frame_q)
    /\ got_data' = Head(frame_q)
    /\ dequeued' = Append(dequeued, [frame |-> Head(frame_q).frame,
                                     stopped |-> stop_event])
    /\ pc' = "cycle"
    /\ UNCHANGED <<lifevars, frame_shape, settings, workerlocals, guivars, feedvars, result_q,
                   serialized, stop_event, frame_buf, errors, timeouts_after_stop>>

\* variant: the failing frame is skipped and the loop goes on
Raise_skip(s, e) ==
    /\ settings' = s
    /\ errors' = Append(errors, e)
    /\ pc' = "loop"
    /\ UNCHANGED <<frame_shape, workerlocals, result_q>>

\* an exception other than Empty inside the try block: except Exception: break
Raise(s, e) ==
    /\ settings' = s
    /\ errors' = Append(errors, e)
    /\ pc' = "done"
    /\ UNCHANGED <<frame_shape, workerlocals, result_q>>

\* the cycle on the dequeued (frame, new_settings), with the oracle seeing
\* objects of the given ids
CycleOn(ids, budget) ==
    /\ pc = "cycle"
    /\ got_data' = None
    /\ LET new_settings == got_data.settings
           s == ActiveSettings(settings, new_settings)
       IN  IF ~HasLineKeys(s)
           THEN Raise(s, "KeyError")
           ELSE \/ Raise(s, "oracle")
                \/ /\ \E objects \in Feed(ids, SystemKinds, budget) :
                         RunCycle(new_settings, objects, FALSE)
                   /\ pc' = "loop"
                   /\ errors' = errors
    /\ UNCHANGED <<lifevars, guivars, feedvars, serialized, stop_event, frame_q, frame_buf,
                   dequeued, timeouts_after_stop>>

\* variant: a set flag cuts the cycle short
WorkerCycle_preempted ==
    /\ pc = "cycle"
    /\ IF stop_event
       THEN /\ pc' = "done"
            /\ got_data' = None
            /\ UNCHANGED <<lifevars, frame_shape, settings, workerlocals, guivars, feedvars, result_q,
                           serialized, stop_event, frame_q, frame_buf, dequeued, errors,
                           timeouts_after_stop>>
       ELSE CycleOn({1}, MaxSystemDetections)

WorkerCycle ==
    /\ pc = "cycle"
    /\ CycleOn({1}, MaxSystemDetections)

\* result_q's feeder thread pickles the oldest message it has not written
\* yet.  The counts of a data_update are a shallow copy: its inner dicts are
\* the worker's own, so the bytes hold the values they have now.
ResultFeeder ==
    /\ Len(serialized) < Len(result_q)
    /\ LET result == result_q[Len(serialized) + 1]
       IN  serialized' = Append(serialized,
                                IF result.type = "data_update"
                                THEN [result EXCEPT !.counts = vehicle_counts]
                                ELSE result)
    /\ UNCHANGED <<lifevars, frame_shape, settings, workerlocals, guivars, feedvars, result_q, pc,
                   stop_event, frame_q, frame_buf, got_data, dequeued, errors,
                   timeouts_after_stop>>

\* detection_proc.is_alive(): the process ends after its loop, once the
\* feeder thread of result_q has written what was put
WorkerAlive == pc # "done" \/ Len(serialized) < Len(result_q)

\* body of stop_detection: flags, stop signal if the process is alive, and
\* both queues emptied of what can be read from them
stop_detection ==
    /\ running' = FALSE
    /\ is_loading' = FALSE
    /\ stop_event' = (stop_event \/ WorkerAlive)
    /\ results_taken' = Len(serialized)
    /\ frame_q' = <<>>

\* process_results, rescheduled while loading or running, takes one message
ProcessResults ==
    /\ is_loading \/ running
    /\ results_taken < Len(serialized)
    /\ LET result == serialized[results_taken + 1]
       IN  CASE result.type = "model_ready" ->
                  /\ results_taken' = results_taken + 1
                  /\ is_loading' = FALSE
                  /\ running' = TRUE
                  /\ feed_pc' = "read"
                  /\ UNCHANGED <<stop_event, frame_q, new_settings_to_send,
                                 frames_read, cur_frame, enqueued, drops>>
             [] result.type = "model_error" ->
                  /\ stop_detection
                  /\ UNCHANGED <<new_settings_to_send, feedvars>>
             [] OTHER ->
                  /\ results_taken' = results_taken + 1
                  /\ UNCHANGED <<is_loading, running, stop_event, frame_q,
                                 new_settings_to_send, feedvars>>
    /\ UNCHANGED <<lifevars, frame_shape, settings, workerlocals, pc, result_q, serialized, frame_buf,
                   got_data, dequeued, errors, timeouts_after_stop>>

\* the user presses the start/stop button while loading or running
StopDetection ==
    /\ is_loading \/ running
    /\ stop_detection
    /\ UNCHANGED <<lifevars, frame_shape, settings, workerlocals, pc, result_q, serialized, frame_buf,
                   got_data, new_settings_to_send, feedvars, dequeued, errors,
                   timeouts_after_stop>>

\* snapshots on their way to the worker or applied by it
SnapshotsSent ==
    settings_updates + (IF Truthy(new_settings_to_send) THEN 1 ELSE 0)
    + (IF got_data # None /\ Truthy(got_data.settings) THEN 1 ELSE 0)
    + Cardinality({i \in DOMAIN frame_q : Truthy(frame_q[i].settings)})
    + Cardinality({i \in DOMAIN frame_buf : Truthy(frame_buf[i].settings)})

\* a dialog applies settings: new_settings_to_send = settings.copy()
UpdateSettings ==
    /\ running
    /\ SnapshotsSent < MaxSnapshots
    /\ new_settings_to_send' \in SystemSettings
    /\ UNCHANGED <<lifevars, frame_shape, settings, workerlocals, pc, stop_event, frame_q, frame_buf,
                   got_data, result_q, serialized, results_taken, is_loading, running, feedvars,
                   dequeued, errors, timeouts_after_stop>>

\* entries counted against maxsize
QueueSize == Len(frame_buf) + Len(frame_q)

\* video_feed_loop on a video of n frames: while self.running, cap.read(),
\* frame_q.full()
FeedReadUpTo(n) ==
    /\ feed_pc = "read"
    /\ IF running /\ frames_read < n
       THEN /\ frames_read' = frames_read + 1
            /\ cur_frame' = frames_read + 1
            /\ feed_pc' = IF QueueSize >= FrameQueueSize THEN "drop" ELSE "put"
       ELSE /\ feed_pc' = "exited"
            /\ UNCHANGED <<frames_read, cur_frame>>
    /\ UNCHANGED <<lifevars, frame_shape, settings, workerlocals, guivars, pc, stop_event, frame_q,
                   frame_buf, got_data, result_q, serialized, enqueued, drops, dequeued, errors,
                   timeouts_after_stop>>

FeedRead ==
    /\ feed_pc = "read"
    /\ FeedReadUpTo(MaxVideoFrames)

\* the queue was full: frame_q.get_nowait(), except Empty: pass
FeedDrop ==
    /\ feed_pc = "drop"
    /\ IF frame_q # <<>>
       THEN /\ frame_q' = Tail(frame_q)
            /\ drops' = Append(drops, [kind |-> "queued", frame |-> Head(frame_q).frame,
                                        queued |-> {frame_q[i].frame : i \in DOMAIN frame_q}
                                                   \cup {frame_buf[i].frame : i \in DOMAIN frame_buf}])
       ELSE /\ drops' = Append(drops, [kind |-> "none", frame |-> 0, queued |-> {}])
            /\ UNCHANGED frame_q
    /\ feed_pc' = "put"
    /\ UNCHANGED <<lifevars, frame_shape, settings, workerlocals, guivars, pc, stop_event, frame_buf,
                   got_data, result_q, serialized, frames_read, cur_frame, enqueued, dequeued,
                   errors, timeouts_after_stop>>

\* frame_q.put_nowait((frame, settings_payload)), except Full: pass
FeedPut ==
    /\ feed_pc = "put"
    /\ IF QueueSize < FrameQueueSize
       THEN /\ frame_buf' = Append(frame_buf, [frame |-> cur_frame,
                                                settings |-> new_settings_to_send])
            /\ enqueued' = Append(enqueued, cur_frame)
            /\ new_settings_to_send' = None
            /\ UNCHANGED drops
       ELSE /\ drops' = Append(drops, [kind |-> "new", frame |-> cur_frame, queued |-> {}])
            /\ UNCHANGED <<frame_buf, enqueued, new_settings_to_send>>
    /\ feed_pc' = "read"
    /\ UNCHANGED <<lifevars, frame_shape, settings, workerlocals, results_taken, is_loading, running,
                   pc, stop_event, frame_q, got_data, result_q, serialized, frames_read, cur_frame,
                   dequeued, errors, timeouts_after_stop>>

\* the queue's feeder thread writes the oldest buffered entry to the pipe
Feeder ==
    /\ frame_buf # <<>>
    /\ frame_q' = Append(frame_q, Head(frame_buf))
    /\ frame_buf' = Tail(frame_buf)
    /\ UNCHANGED <<lifevars, frame_shape, settings, workerlocals, guivars, feedvars, pc, stop_event,
                   got_data, result_q, serialized, dequeued, errors, timeouts_after_stop>>

InitSystem ==
    /\ LifeIdle
    /\ frame_shape = <<720, 960>>
    /\ settings \in SystemSettings
    /\ Locals
    /\ pc = "load"
    /\ stop_event = FALSE
    /\ frame_q = <<>>
    /\ frame_buf = <<>>
    /\ got_data = None
    /\ result_q = <<>>
    /\ serialized = <<>>
    /\ results_taken = 0
    /\ is_loading = TRUE
    /\ running = FALSE
    /\ new_settings_to_send = None
    /\ feed_pc = "idle"
    /\ frames_read = 0
    /\ cur_frame = 0
    /\ enqueued = <<>>
    /\ dequeued = <<>>
    /\ errors = <<>>
    /\ timeouts_after_stop = 0
    /\ drops = <<>>

WorkerStep == LoadModel \/ WhileCheck \/ GetTimeout \/ Dequeue \/ WorkerCycle

NextSystem ==
    \/ LoadModel
    \/ WhileCheck
    \/ GetTimeout
    \/ Dequeue
    \/ WorkerCycle
    \/ ResultFeeder
    \/ ProcessResults
    \/ StopDetection
    \/ UpdateSettings
    \/ FeedRead
    \/ FeedPut
    \/ Feeder

\* a video of MaxVideoFrames < FrameQueueSize frames never fills the queue
SpecSystem == InitSystem /\ [][NextSystem]_vars

\* the operating system keeps scheduling the worker process
SpecSystemFair == SpecSystem /\ WF_vars(WorkerStep)

\* --------------------------------------------------------- ingestion queue
\* A video long enough to fill the queue, under settings that stay as they
\* were at the start, with at most MaxQueueDetections objects in its frames.
QueueCycle ==
    /\ pc = "cycle"
    /\ CycleOn({1}, MaxQueueDetections)

QueueFeedRead ==
    /\ feed_pc = "read"
    /\ FeedReadUpTo(MaxQueueFrames)

InitQueue ==
    /\ InitSystem
    /\ settings = S1

NextQueue ==
    \/ LoadModel
    \/ WhileCheck
    \/ GetTimeout
    \/ Dequeue
    \/ QueueCycle
    \/ ResultFeeder
    \/ ProcessResults
    \/ StopDetection
    \/ QueueFeedRead
    \/ FeedDrop
    \/ FeedPut
    \/ Feeder

SpecQueue == InitQueue /\ [][NextQueue]_vars

\* -------------------------------------------------------- settings delivery
\* A run that is not stopped, from the moment the GUI has taken model_ready
\* and started the producer, on a video long enough to fill the queue,
\* during which a dialog applies settings once.  The steps of the result
\* queue are left out: they do not touch the ingestion queue.
WorkerStepQueue == WhileCheck \/ GetTimeout \/ Dequeue \/ QueueCycle

InitSettings ==
    /\ frame_shape = <<720, 960>>
    /\ settings = S1
    /\ Constructed

NextSettings ==
    \/ WhileCheck
    \/ GetTimeout
    \/ Dequeue
    \/ QueueCycle
    \/ UpdateSettings
    \/ QueueFeedRead
    \/ FeedDrop
    \/ FeedPut
    \/ Feeder

SpecSettings == InitSettings /\ [][NextSettings]_vars

\* the worker process and the feeder thread of frame_q keep being scheduled
SpecSettingsFair == SpecSettings /\ WF_vars(WorkerStepQueue) /\ WF_vars(Feeder)

\* ------------------------------------------------------------ result queue
\* A run that is not stopped, on a short video in which two vehicles can be
\* counted in different cycles, under settings that stay as they were.
ResultsFeedRead ==
    /\ feed_pc = "read"
    /\ FeedReadUpTo(MaxResultFrames)

ResultsCycle ==
    /\ pc = "cycle"
    /\ CycleOn(TrackIds, MaxResultDetections)

InitResults ==
    /\ InitSystem
    /\ settings = S1

NextResults ==
    \/ LoadModel
    \/ WhileCheck
    \/ GetTimeout
    \/ Dequeue
    \/ ResultsCycle
    \/ ResultFeeder
    \/ ProcessResults
    \/ ResultsFeedRead
    \/ FeedPut
    \/ Feeder

SpecResults == InitResults /\ [][NextResults]_vars

\* ---------------------------------------------------------------- lifecycle
\* The GUI's start and stop handlers and its shutdown polling over up to
\* MaxWorkers worker processes.  The app has ONE stop_event (app.py 45),
\* handed to every process it starts.  The handlers run on the Tk main
\* thread, one at a time; the processes run beside them.
runvars == <<frame_shape, settings, workerlocals, pc, frame_q, frame_buf, got_data,
             result_q, serialized, results_taken, new_settings_to_send, feedvars,
             dequeued, errors, timeouts_after_stop>>

\* Process.is_alive()
IsAlive(p) == workers[p].pc \in {"load", "loop"}

\* start_detection: returns at once while running or loading; else clears
\* the flag, makes new queues, starts a process and keeps only its handle
start_detection ==
    /\ ~(running \/ is_loading)
    /\ Len(workers) < MaxWorkers
    /\ is_loading' = TRUE
    /\ stop_event' = FALSE
    /\ workers' = Append(workers, [pc |-> "load", ready |-> FALSE, flagged |-> FALSE,
                                   killed_by |-> 0])
    /\ detection_proc' = Len(workers) + 1
    /\ UNCHANGED <<running, shutdown_attempts, pending_checks, runvars>>

\* stop_detection, called while running or loading (toggle_detection,
\* _setup_video_source, a model_error result, on_closing): signals the
\* process detection_proc refers to if it is alive and schedules the first
\* poll, else forgets it; empties self.result_q, the queue of the last start
StopDetectionProc ==
    /\ running \/ is_loading
    /\ running' = FALSE
    /\ is_loading' = FALSE
    /\ IF detection_proc # 0 /\ IsAlive(detection_proc)
       THEN /\ stop_event' = TRUE
            /\ shutdown_attempts' = 0
            /\ pending_checks' = pending_checks \cup {detection_proc}
            /\ workers' = [workers EXCEPT ![detection_proc].flagged = TRUE,
                                          ![Len(workers)].ready = FALSE]
            /\ UNCHANGED detection_proc
       ELSE /\ detection_proc' = 0
            /\ workers' = [workers EXCEPT ![Len(workers)].ready = FALSE]
            /\ UNCHANGED <<stop_event, shutdown_attempts, pending_checks>>
    /\ UNCHANGED runvars

\* one scheduled _check_process_shutdown callback, of the chain named t
check_process_shutdown(t) ==
    /\ t \in pending_checks
    /\ IF detection_proc = 0
       THEN /\ pending_checks' = pending_checks \ {t}
            /\ UNCHANGED <<workers, detection_proc, shutdown_attempts>>
       ELSE IF IsAlive(detection_proc)
            THEN /\ shutdown_attempts' = shutdown_attempts + 1
                 /\ IF shutdown_attempts + 1 > ShutdownPolls
                    THEN /\ workers' = [workers EXCEPT
                                            ![detection_proc].pc = "terminated",
                                            ![detection_proc].killed_by = t]
                         /\ detection_proc' = 0
                         /\ pending_checks' = pending_checks \ {t}
                    ELSE UNCHANGED <<workers, detection_proc, pending_checks>>
            ELSE /\ detection_proc' = 0
                 /\ pending_checks' = pending_checks \ {t}
                 /\ UNCHANGED <<workers, shutdown_attempts>>
    /\ UNCHANGED <<stop_event, running, is_loading, runvars>>

\* process p has built the oracle: it puts model_ready and enters its loop
WorkerLoaded(p) ==
    /\ p \in DOMAIN workers
    /\ workers[p].pc = "load"
    /\ workers' = [workers EXCEPT ![p].pc = "loop", ![p].ready = TRUE]
    /\ UNCHANGED <<stop_event, running, is_loading, detection_proc, shutdown_attempts,
                   pending_checks, runvars>>

\* process p tests the flag at the top of its loop and finds it set
WorkerExit(p) ==
    /\ p \in DOMAIN workers
    /\ workers[p].pc = "loop"
    /\ stop_event
    /\ workers' = [workers EXCEPT ![p].pc = "done"]
    /\ UNCHANGED <<stop_event, running, is_loading, detection_proc, shutdown_attempts,
                   pending_checks, runvars>>

\* process p ends by itself: the oracle cannot be built (return) or a cycle
\* raises (break)
WorkerError(p) ==
    /\ p \in DOMAIN workers
    /\ IsAlive(p)
    /\ workers' = [workers EXCEPT ![p].pc = "done"]
    /\ UNCHANGED <<stop_event, running, is_loading, detection_proc, shutdown_attempts,
                   pending_checks, runvars>>

\* process_results, polling while loading, takes model_ready from
\* self.result_q
ProcessReady ==
    /\ is_loading
    /\ workers # <<>>
    /\ workers[Len(workers)].ready
    /\ is_loading' = FALSE
    /\ running' = TRUE
    /\ workers' = [workers EXCEPT ![Len(workers)].ready = FALSE]
    /\ UNCHANGED <<stop_event, detection_proc, shutdown_attempts, pending_checks, runvars>>

\* the app after construction, no detection started yet
InitLifecycle ==
    /\ LifeIdle
    /\ frame_shape = <<720, 960>>
    /\ settings = S1
    /\ Locals
    /\ pc = "load"
    /\ stop_event = FALSE
    /\ frame_q = <<>>
    /\ frame_buf = <<>>
    /\ got_data = None
    /\ result_q = <<>>
    /\ serialized = <<>>
    /\ results_taken = 0
    /\ is_loading = FALSE
    /\ running = FALSE
    /\ new_settings_to_send = None
    /\ feed_pc = "idle"
    /\ frames_read = 0
    /\ cur_frame = 0
    /\ enqueued = <<>>
    /\ dequeued = <<>>
    /\ errors = <<>>
    /\ timeouts_after_stop = 0
    /\ drops = <<>>

WorkerStepOf(p) == WorkerLoaded(p) \/ WorkerExit(p)

CheckProcessShutdown == \E t \in 1..MaxWorkers : check_process_shutdown(t)

NextLifecycle ==
    \/ start_detection
    \/ StopDetectionProc
    \/ CheckProcessShutdown
    \/ \E p \in 1..MaxWorkers : WorkerLoaded(p)
    \/ \E p \in 1..MaxWorkers : WorkerExit(p)
    \/ \E p \in 1..MaxWorkers : WorkerError(p)
    \/ ProcessReady

SpecLifecycle == InitLifecycle /\ [][NextLifecycle]_vars

\* every live process keeps taking steps and Tk fires the timers it holds
SpecLifecycleFair ==
    /\ SpecLifecycle
    /\ \A p \in 1..MaxWorkers : WF_vars(WorkerStepOf(p))
    /\ WF_vars(CheckProcessShutdown)

\* ================================================================ properties
LastFrame == last_cycle.frame

Before == last_cycle.before

AfterLoop == last_cycle.after_loop

\* valid detections the last cycle processed
LastValid == {last_cycle.valid[i] : i \in DOMAIN last_cycle.valid}

\* (frame, direction) of the CountEvents of a track id
EventsOf(t) ==
    {<<event_log[i].frame, event_log[i].row.Direction>> :
        i \in {j \in DOMAIN event_log : event_log[j].row.Vehicle_ID = t}}

\* directions of the CountEvents the last cycle emitted for a track id
LastDirections(t) == {e[2] : e \in {x \in EventsOf(t) : x[1] = LastFrame}}

Line1 == Line1Pos(settings, frame_shape)

Line2 == Line2Pos(settings, frame_shape)

Trigger(det) == TriggerPoint(det.box, settings)

Within(trigger_point, line_pos) ==
    trigger_point - line_pos < tolerance /\ line_pos - trigger_point < tolerance

\* C1: no two CountEvents are ever emitted with the same track_id.
C1_OneEventPerTrack ==
    \A i, j \in DOMAIN event_log :
        i # j => event_log[i].row.Vehicle_ID # event_log[j].row.Vehicle_ID

\* C2: a record's counted flag starts false and never changes from true to
\* false while the record is in the store.
C2_CountedNeverReverts ==
    [][/\ \A t \in DOMAIN vehicle_states' \ DOMAIN vehicle_states :
              ~vehicle_states'[t].counted
       /\ \A t \in DOMAIN vehicle_states' \cap DOMAIN vehicle_states :
              vehicle_states[t].counted => vehicle_states'[t].counted]_vars

\* C2 witness: a counted record was detected again and is still counted.
C2_Witness ==
    \E d \in LastValid :
        /\ d.track_id \in DOMAIN Before
        /\ Before[d.track_id].counted
        /\ d.track_id \in DOMAIN vehicle_states
        /\ vehicle_states[d.track_id].counted
        /\ vehicle_states[d.track_id].last_seen = LastFrame

\* C3: a CountEvent for an id is emitted only for a record on line 1 or 2
\* that was created in a strictly earlier cycle; a record created in a cycle
\* emits nothing in that cycle.
C3_CreatedBeforeCounted ==
    \A t \in TrackIds :
        /\ LastDirections(t) # {} =>
              /\ t \in DOMAIN Before
              /\ Before[t].line \in {1, 2}
              /\ Before[t].first_seen < LastFrame
        /\ t \in DOMAIN AfterLoop \ DOMAIN Before =>
              /\ LastDirections(t) = {}
              /\ ~AfterLoop[t].counted

\* C3 witness: the last cycle emitted a CountEvent.
C3_Witness == \E t \in TrackIds : LastDirections(t) # {}

\* C4: an uncounted record that passes the movement check emits In exactly
\* when its initial line is 1 and the trigger point is within tolerance of
\* line2, Out exactly when its initial line is 2 and the trigger point is
\* within tolerance of line1, and otherwise emits nothing and stays uncounted.
C4_DirectionRule ==
    \A d \in LastValid :
        LET t == d.track_id
        IN  (t \in DOMAIN Before /\ ~Before[t].counted /\ t \in DOMAIN AfterLoop) =>
              /\ ("In" \in LastDirections(t)) =
                    (Before[t].line = 1 /\ Within(Trigger(d), Line2))
              /\ ("Out" \in LastDirections(t)) =
                    (Before[t].line = 2 /\ Within(Trigger(d), Line1))
              /\ AfterLoop[t].counted = (LastDirections(t) # {})

\* C4 witness: a record of line 2 came within tolerance of line1 and its Out
\* event was emitted.
C4_Witness ==
    \E d \in LastValid :
        /\ d.track_id \in DOMAIN Before
        /\ Before[d.track_id].line = 2
        /\ Within(Trigger(d), Line1)
        /\ LastDirections(d.track_id) = {"Out"}

\* the samples of track t are exactly the scenario's, in frames f .. f + 3
ScenarioTrack(t, f) ==
    trace[t] = [i \in DOMAIN ScenarioSamples |-> <<f + i - 1, ScenarioSamples[i]>>]

\* C5 as stated: the track is initialized on line 1 at the second sample and
\* its In event is emitted at the fourth sample.
C5_AsStated ==
    \A t \in TrackIds, f \in 0..MaxScenarioFrame :
        ScenarioTrack(t, f) =>
            /\ t \in DOMAIN vehicle_states
            /\ vehicle_states[t].line = 1
            /\ vehicle_states[t].first_seen = f + 1
            /\ EventsOf(t) = {<<f + 3, "In">>}

\* C5 amended: the track is initialized on line 1 at the first sample (298 is
\* within 25 of 300) and its only CountEvent, with direction In, is emitted
\* at the third sample (330 is within 25 of 350).
C5_FirstAndThirdSample ==
    \A t \in TrackIds, f \in 0..MaxScenarioFrame :
        ScenarioTrack(t, f) =>
            /\ t \in DOMAIN vehicle_states
            /\ vehicle_states[t].line = 1
            /\ vehicle_states[t].first_seen = f
            /\ vehicle_states[t].counted
            /\ EventsOf(t) = {<<f + 2, "In">>}

\* C5 witness: some track has gone through the four samples.
C5_Witness == \E t \in TrackIds, f \in 0..MaxScenarioFrame : ScenarioTrack(t, f)

\* number of CountEvents so far with a class and a direction
Tally(log, golongan, direction) ==
    Cardinality({i \in DOMAIN log :
                    log[i].row.Class = golongan /\ log[i].row.Direction = direction})

\* C6: every counter never decreases and equals the number of CountEvents
\* emitted so far with its class and direction, so an event of class Unknown
\* changes no counter.
C6_CountsMatchEvents ==
    [][\A g \in GolonganSet, d \in {"In", "Out"} :
          /\ vehicle_counts'[g][d] >= vehicle_counts[g][d]
          /\ vehicle_counts'[g][d] = Tally(event_log', g, d)]_vars

\* C6 witness: a CountEvent of class Unknown has been emitted and no counter
\* has moved.
C6_Witness ==
    /\ \E i \in DOMAIN event_log : event_log[i].row.Class = Unknown
    /\ \A g \in GolonganSet, d \in {"In", "Out"} : vehicle_counts[g][d] = 0

\* C7: a detection of an id that is not in the store, with its trigger point
\* within tolerance of both lines, creates the record with line = 1.
C7_Line1First ==
    \A d \in LastValid :
        (/\ d.track_id \notin DOMAIN Before
         /\ Within(Trigger(d), Line1)
         /\ Within(Trigger(d), Line2)) =>
            /\ d.track_id \in DOMAIN vehicle_states
            /\ vehicle_states[d.track_id].line = 1
            /\ vehicle_states[d.track_id].first_seen = LastFrame

\* C7 witness: the last cycle created a record from a trigger point within
\* tolerance of both lines.
C7_Witness ==
    \E d \in LastValid :
        /\ d.track_id \notin DOMAIN Before
        /\ Within(Trigger(d), Line1)
        /\ Within(Trigger(d), Line2)
        /\ d.track_id \in DOMAIN vehicle_states

\* C8: the reaper removes a record if and only if frames_inactive is > 60,
\* or > 30 while is_moving is false; a record last updated at frame 100 is not
\* in the store after the reaper has run at frame 162.
C8_ReaperRule ==
    /\ DOMAIN vehicle_states =
          {t \in DOMAIN AfterLoop :
              ~ \/ LastFrame - AfterLoop[t].last_seen > 60
                \/ LastFrame - AfterLoop[t].last_seen > 30 /\ ~AfterLoop[t].is_moving}
    /\ \A t \in DOMAIN vehicle_states : vehicle_states[t] = AfterLoop[t]
    /\ LastFrame >= 162 => \A t \in DOMAIN vehicle_states : vehicle_states[t].last_seen # 100

\* C8 witness: a moving record last updated at frame 100 is removed by the
\* reaper of frame 161.
C8_Witness ==
    /\ LastFrame = 161
    /\ \E t \in DOMAIN AfterLoop :
          /\ AfterLoop[t].last_seen = 100
          /\ AfterLoop[t].is_moving
          /\ t \notin DOMAIN vehicle_states

\* the movement check as C9 states it: min_tracking_frames comes from the
\* settings and the average is compared from frames_tracked =
\* min_tracking_frames on
C9_StatedCheck(rec, s) ==
    LET frames_tracked == rec.last_seen - rec.first_seen
    IN  \/ ~Get(s, "enable_movement_validation", TRUE)
        \/ frames_tracked < Get(s, "min_tracking_frames", 15)
        \/ 1000 * rec.total_distance >=
              Get(s, "min_movement_threshold", 300) * 4 * frames_tracked

\* C9: a known record stays in the store after its update exactly when the
\* movement check as stated returns true.
C9_MovementCheckAsStated ==
    \A d \in LastValid :
        d.track_id \in DOMAIN Before =>
            (d.track_id \in DOMAIN AfterLoop) =
                C9_StatedCheck(update_vehicle_movement(Before[d.track_id], d.box, LastFrame),
                               settings)

\* the updated record fails the movement check
FailsMovement(rec, s) ==
    /\ Get(s, "enable_movement_validation", TRUE)
    /\ rec.last_seen - rec.first_seen > 15
    /\ 1000 * rec.total_distance <
          Get(s, "min_movement_threshold", 300) * 4 * (rec.last_seen - rec.first_seen)

\* C10: a known, uncounted record that fails the movement check after its
\* update is removed in that cycle and no CountEvent is emitted for its id in
\* that cycle.
C10_EvictedNotCounted ==
    \A d \in LastValid :
        (/\ d.track_id \in DOMAIN Before
         /\ ~Before[d.track_id].counted
         /\ FailsMovement(update_vehicle_movement(Before[d.track_id], d.box, LastFrame),
                          settings)) =>
            /\ d.track_id \notin DOMAIN vehicle_states
            /\ LastDirections(d.track_id) = {}

\* C10 witness: a record of line 1 failed the movement check with its trigger
\* point within tolerance of line2.
C10_Witness ==
    \E d \in LastValid :
        /\ d.track_id \in DOMAIN Before
        /\ ~Before[d.track_id].counted
        /\ Before[d.track_id].line = 1
        /\ Within(Trigger(d), Line2)
        /\ FailsMovement(update_vehicle_movement(Before[d.track_id], d.box, LastFrame),
                         settings)
        /\ d.track_id \notin DOMAIN vehicle_states

\* C11: a record whose counted flag is true stays in the store until the
\* stale track reaper removes it: the detection loop of a cycle (update and
\* movement check) never removes a counted record.
C11_CountedKeptUntilReaped ==
    \A t \in DOMAIN Before : Before[t].counted => t \in DOMAIN AfterLoop

\* raw oracle detections of the last cycle, with the filters called on each
LastResults == {[det |-> last_cycle.results[i], evaluated |-> last_cycle.evaluated[i]] :
                    i \in DOMAIN last_cycle.results}

Blacklisted(class_name) ==
    \E i \in DOMAIN BUILDING_CLASSES : Contains(lower(class_name), BUILDING_CLASSES[i])

\* C12: a detection whose class name contains a blacklist entry, in any
\* letter case, is rejected by the first filter whatever its box, confidence
\* and the settings, and the two later filters are not evaluated for it.
C12_BlacklistRejectsFirst ==
    \A r \in LastResults :
        Blacklisted(r.det.class_name) =>
            /\ r.det \notin LastValid
            /\ r.evaluated = <<"is_building_class">>

\* "person" at confidence 0.9 in a box that passes every other filter
C12_Witness ==
    \E r \in LastResults :
        /\ r.det.class_name = PersonLower
        /\ r.det.confidence = 900
        /\ r.det.box = BoxAt(0)
        /\ r.det \notin LastValid

\* bbox area of a detection in quarter square pixels
QuarterArea(det) == (det.box[3] - det.box[1]) * (det.box[4] - det.box[2])

FrameArea == frame_shape[1] * frame_shape[2]

\* area / frame area > max_object_size_ratio, the ratio in thousandths
TooLarge(det) ==
    250 * QuarterArea(det) > Get(settings, "max_object_size_ratio", 300) * FrameArea

\* area / frame area < 0.005
TooSmall(det) == 50 * QuarterArea(det) < FrameArea

\* C13: a detection whose bbox area over the frame area is above
\* max_object_size_ratio or below 0.005 is never in the filtered list, for
\* every confidence, class name and value of enable_roi_filter.
C13_SizeLimitsReject ==
    \A r \in LastResults : TooLarge(r.det) \/ TooSmall(r.det) => r.det \notin LastValid

\* a box of 40% of a 1000 x 1000 frame at confidence 1.0 with
\* max_object_size_ratio 0.3, of a class without table entries
C13_Witness ==
    /\ frame_shape = <<1000, 1000>>
    /\ Get(settings, "max_object_size_ratio", 300) = 300
    /\ \E r \in LastResults :
          /\ r.det.box = BigBox
          /\ 10 * QuarterArea(r.det) = 4 * 4 * FrameArea
          /\ r.det.class_name = Car
          /\ r.det.confidence = 1000
          /\ r.evaluated = <<"is_building_class", "is_likely_vehicle">>
          /\ r.det \notin LastValid

\* detections of the last cycle that reached the class-specific stage
ReachedClassStage == {r \in LastResults : Len(r.evaluated) = 3}

\* class_confidence[class_name], or the global threshold without an entry
ApplicableThreshold(class_name) ==
    IF "class_confidence" \in DOMAIN settings
       /\ class_name \in DOMAIN settings.class_confidence
    THEN settings.class_confidence[class_name]
    ELSE settings.confidence_threshold

TableClasses == {Motor, GolI, GolII, GolIII, GolIV, GolV, Gol1, Gol2, Gol3, Gol4, Gol5}

\* C14: the class-specific stage rejects a detection whose confidence is
\* below class_confidence[class_name], or below confidence_threshold when
\* the class has no entry; a class outside the size and aspect tables is
\* accepted by the stage exactly when its confidence reaches the threshold.
C14_ClassStage ==
    \A r \in ReachedClassStage :
        /\ r.det.confidence < ApplicableThreshold(r.det.class_name)
              => r.det \notin LastValid
        /\ r.det.class_name \notin TableClasses
              => (r.det \in LastValid
                    <=> r.det.confidence >= ApplicableThreshold(r.det.class_name))

\* a class with an entry of 0.7 in class_confidence and no table entry, at a
\* confidence between the global threshold 0.5 and 0.7
C14_Witness ==
    \E r \in ReachedClassStage :
        /\ r.det.class_name = Car
        /\ ApplicableThreshold(Car) = 700
        /\ settings.confidence_threshold = 500
        /\ r.det.confidence = 600
        /\ r.det \notin LastValid

MessageTypes == {result_q[i].type : i \in DOMAIN result_q}

ModelMessages == {i \in DOMAIN result_q : result_q[i].type \in {"model_ready", "model_error"}}

\* C15: the first message on the result queue is model_ready or model_error
\* and exactly one of the two is ever put; after model_error nothing else
\* is put and no frame is dequeued.
C15_ModelMessageFirst ==
    /\ result_q # <<>> => 1 \in ModelMessages
    /\ Cardinality(ModelMessages) = (IF pc = "load" THEN 0 ELSE 1)
    /\ "model_error" \in MessageTypes =>
          /\ result_q = <<[type |-> "model_error"]>>
          /\ dequeued = <<>>
          /\ pc = "done"

\* the GUI has taken the worker's model_error
C15_Witness ==
    /\ result_q = <<[type |-> "model_error"]>>
    /\ results_taken = 1
    /\ ~is_loading

\* C16: an exception other than the dequeue timeout ends the loop with no
\* message for the failing cycle, nothing is dequeued, processed or put
\* after the loop has ended, and a dequeue timeout leads back to the test of
\* the loop.
C16_FailFast ==
    [][/\ Len(errors') > Len(errors) => pc' = "done" /\ result_q' = result_q
       /\ pc = "done" => /\ pc' = "done"
                         /\ dequeued' = dequeued
                         /\ frame_num' = frame_num
                         /\ result_q' = result_q
       /\ pc = "get" /\ pc' # "get" /\ dequeued' = dequeued => pc' = "loop"]_vars

\* the oracle raised after a completed cycle, with frames still queued
C16_Witness ==
    /\ pc = "done"
    /\ errors = <<"oracle">>
    /\ frame_num >= 1
    /\ frame_q # <<>>

\* C17: after an exception raised in a cycle the worker has put a failure
\* message on the result queue when it stops.
C17_FailureSignalled ==
    pc = "done" /\ errors # <<>> =>
        \E i \in DOMAIN result_q : result_q[i].type \notin {"model_ready", "frame", "data_update"}

\* C18: a settings snapshot with a missing key never makes a cycle raise.
C18_MissingKeysTolerated ==
    \A i \in DOMAIN errors : errors[i] # "KeyError"

\* C19: once the stop flag is set the worker eventually leaves its loop, and
\* at most one timed dequeue expires after the flag was set.
C19_StopTerminates ==
    /\ stop_event ~> pc = "done"
    /\ [](timeouts_after_stop <= 1)

\* the worker was inside frame_q.get when the flag was set and left after
\* that one dequeue timed out
C19_Witness ==
    /\ stop_event
    /\ pc = "done"
    /\ timeouts_after_stop = 1
    /\ errors = <<>>

\* C20: the ingestion queue never holds more than 5 entries, and whenever
\* the producer found it full it removed one entry, the oldest queued one,
\* and enqueued the new frame.
C20_DropOldest ==
    /\ QueueSize <= FrameQueueSize
    /\ \A i \in DOMAIN drops :
          /\ drops[i].kind = "queued"
          /\ \A f \in drops[i].queued : drops[i].frame <= f

\* known ids the last cycle updated and kept
UpdatedKept == {d \in LastValid : d.track_id \in DOMAIN Before /\ d.track_id \in DOMAIN AfterLoop}

Center(box) == <<box[1] + box[3], box[2] + box[4]>>

\* C24: every record's positions list has length between 1 and 30, and an
\* update on a record holding 30 positions drops the oldest position and
\* keeps the 30 most recent in order.
C24_PositionsCapped ==
    /\ \A t \in DOMAIN AfterLoop :
          Len(AfterLoop[t].positions) >= 1 /\ Len(AfterLoop[t].positions) <= 30
    /\ \A t \in DOMAIN vehicle_states :
          Len(vehicle_states[t].positions) >= 1 /\ Len(vehicle_states[t].positions) <= 30
    /\ \A d \in UpdatedKept :
          Len(Before[d.track_id].positions) = 30 =>
              AfterLoop[d.track_id].positions =
                  Append(Tail(Before[d.track_id].positions), Center(d.box))

\* a record holding 30 distinct positions was updated
C24_Witness ==
    \E d \in UpdatedKept :
        /\ Len(Before[d.track_id].positions) = 30
        /\ Before[d.track_id].positions[1] # Before[d.track_id].positions[2]
        /\ Len(AfterLoop[d.track_id].positions) = 30
\* C26: after an update with frames_tracked = frame_num - first_seen > 15,
\* is_moving equals (total_distance / frames_tracked > the configured
\* min_movement_threshold); with frames_tracked <= 15 is_moving keeps its
\* previous value, which is false.
C26_IsMovingConfigured ==
    \A d \in UpdatedKept :
        LET rec == AfterLoop[d.track_id]
            frames_tracked == LastFrame - rec.first_seen
        IN  IF frames_tracked > 15
            THEN rec.is_moving =
                    (1000 * rec.total_distance >
                        Get(settings, "min_movement_threshold", 300) * 4 * frames_tracked)
            ELSE rec.is_moving = Before[d.track_id].is_moving /\ ~rec.is_moving
\* the detection's trigger point is within tolerance of line1 or of line2
OnALine(det) == Within(Trigger(det), Line1) \/ Within(Trigger(det), Line2)

\* valid detections of the last cycle with an id that was not in the store
\* and a trigger point away from both lines
Strangers == {d \in LastValid : d.track_id \notin DOMAIN Before /\ ~OnALine(d)}

\* C25: a valid detection of an id that is not in the store, with its
\* trigger point not within tolerance of a line, leaves the store, the
\* counts and the pending events unchanged; a record is created only for an
\* absent id whose trigger point is within tolerance of a line; an update of
\* a known id never changes the record's line, golongan, first_seen or
\* counted fields.
C25_CreatedOnLineOnly ==
    /\ [](/\ \A d \in Strangers :
                /\ d.track_id \notin DOMAIN AfterLoop
                /\ LastDirections(d.track_id) = {}
          /\ (LastValid # {} /\ LastValid = Strangers) =>
                /\ AfterLoop = Before
                /\ \A i \in DOMAIN event_log : event_log[i].frame # LastFrame
          /\ \A t \in DOMAIN AfterLoop \ DOMAIN Before :
                \E d \in LastValid : d.track_id = t /\ OnALine(d)
          /\ \A d \in UpdatedKept :
                /\ AfterLoop[d.track_id].line = Before[d.track_id].line
                /\ AfterLoop[d.track_id].golongan = Before[d.track_id].golongan
                /\ AfterLoop[d.track_id].first_seen = Before[d.track_id].first_seen
                /\ update_vehicle_movement(Before[d.track_id], d.box, LastFrame).counted
                      = Before[d.track_id].counted)
    /\ [][(LastValid' # {} /\ LastValid' = Strangers' /\ frame_num' = frame_num + 1) =>
              vehicle_counts' = vehicle_counts]_vars

\* in one cycle a known record was updated and a detection of an absent id
\* away from both lines was ignored
C25_Witness ==
    /\ \E d \in Strangers : d.track_id \notin DOMAIN vehicle_states
    /\ \E d \in UpdatedKept : AfterLoop[d.track_id].valid_detections = 1
\* a is b with some of its entries left out
RECURSIVE IsSubsequence(_, _)
IsSubsequence(a, b) ==
    IF a = <<>> THEN TRUE
    ELSE IF b = <<>> THEN FALSE
    ELSE IF Head(a) = Head(b) THEN IsSubsequence(Tail(a), Tail(b))
    ELSE IsSubsequence(a, Tail(b))

DequeuedFrames == [i \in DOMAIN dequeued |-> dequeued[i].frame]

\* C21: the frames the worker processes are an order-preserving subsequence
\* of the frames the producer enqueued: no frame is processed before a frame
\* that was enqueued earlier, and none is processed twice.
C21_ProcessedInOrder ==
    /\ IsSubsequence(DequeuedFrames, enqueued)
    /\ \A i, j \in DOMAIN dequeued : i < j => dequeued[i].frame < dequeued[j].frame

\* the producer removed a queued frame and the worker went on with later ones
C21_Witness ==
    \E i \in DOMAIN drops :
        /\ drops[i].kind = "queued"
        /\ Len(dequeued) >= 2
        /\ \A j \in DOMAIN dequeued : dequeued[j].frame > drops[i].frame
\* what the detection loop of a cycle on these valid detections leaves when
\* each of its steps reads the snapshot s
LoopUnder(s, valid, store, counts, fnum) ==
    ProcessDetections([vehicle_states |-> store, vehicle_counts |-> counts,
                       pending_detections |-> <<>>],
                      valid, s, Line1Pos(s, frame_shape), Line2Pos(s, frame_shape), fnum)

\* C22: a settings payload replaces the worker's whole active snapshot before
\* any step of its cycle; the line positions, the oracle's confidence floor,
\* the filter chain, the movement check and the counting of one cycle all
\* read that snapshot; and the active snapshot changes at no other moment
\* between a dequeue and the end of its cycle.
C22_OneSnapshotPerCycle ==
    [][/\ settings' # settings =>
             pc = "cycle" /\ Truthy(got_data.settings) /\ settings' = got_data.settings
       /\ (pc = "cycle" /\ pc' # "cycle" /\ Truthy(got_data.settings)) =>
             settings' = got_data.settings
       /\ frame_num' = frame_num + 1 =>
             /\ \A i \in DOMAIN last_cycle'.results :
                   last_cycle'.results[i].confidence >= Get(settings', "confidence_threshold", 500)
             /\ last_cycle'.valid =
                   enhanced_detection_validation(last_cycle'.results, settings', frame_shape)
             /\ \E st \in {LoopUnder(settings', last_cycle'.valid, vehicle_states,
                                      vehicle_counts, frame_num)} :
                   /\ last_cycle'.after_loop = st.vehicle_states
                   /\ vehicle_counts' = st.vehicle_counts
                   /\ event_log' = event_log \o LogRows(st.pending_detections, frame_num)]_vars

\* a frame carried a snapshot with line2 at 340 to a worker whose line2 was
\* at 350, and its cycle counted a record at 319
C22_Witness ==
    /\ last_cycle.payload = S2
    /\ last_cycle.previous = S1
    /\ settings = S2
    /\ \E d \in LastValid :
          /\ TriggerPoint(d.box, S2) = 319
          /\ ~Within(319, Line2Pos(S1, frame_shape))
          /\ LastDirections(d.track_id) = {"In"}
FrameMessages == {i \in DOMAIN result_q : result_q[i].type = "frame"}

DataUpdates == {i \in DOMAIN result_q : result_q[i].type = "data_update"}

\* the CountEvents of the cycle on frame k, in the order they occurred
RowsOfCycle(k) ==
    LET events == SelectSeq(event_log, LAMBDA e : e.frame = k)
    IN  [i \in DOMAIN events |-> events[i].row]

\* C23: each completed cycle puts exactly one frame message; it puts a
\* data_update, right after the frame message, exactly when a CountEvent
\* occurred in the cycle, and that message's new_rows are the CountEvents of
\* the cycle, so every CountEvent is in exactly one data_update.
C23_MessagesPerCycle ==
    /\ Cardinality(FrameMessages) = frame_num
    /\ \A k \in 0..(frame_num - 1) :
          \E i \in FrameMessages :
              /\ result_q[i].image = k
              /\ \A j \in FrameMessages : result_q[j].image = k => j = i
              /\ IF RowsOfCycle(k) # <<>>
                 THEN /\ i + 1 \in DataUpdates
                      /\ result_q[i + 1].new_rows = RowsOfCycle(k)
                 ELSE i + 1 \notin DataUpdates
    /\ \A i \in DataUpdates : i - 1 \in FrameMessages
    /\ \A e \in DOMAIN event_log : event_log[e].frame < frame_num

\* a cycle that counted was followed by one that did not
C23_Witness ==
    \E i \in DataUpdates :
        /\ result_q[i].new_rows # <<>>
        /\ i + 1 \in FrameMessages
        /\ i + 1 = Len(result_q)
\* dequeues the worker made with the flag set
DequeuedAfterStop == {i \in DOMAIN dequeued : dequeued[i].stopped}

\* this step ends a cycle by putting its messages
CycleCompletes ==
    /\ frame_num' = frame_num + 1
    /\ pc' = "loop"
    /\ Len(result_q') > Len(result_q)
    /\ result_q'[Len(result_q) + 1] = [type |-> "frame", image |-> frame_num]
    /\ SubSeq(result_q', 1, Len(result_q)) = result_q

\* this step ends a cycle by an exception
CycleRaises ==
    /\ Len(errors') > Len(errors)
    /\ pc' = "done"
    /\ result_q' = result_q

\* C30 as stated: after the flag is set the worker dequeues at most one more
\* frame, and a cycle in progress when the flag is set always runs to
\* completion, its frame message put, before the worker exits.
C30_AsStated ==
    /\ [](Cardinality(DequeuedAfterStop) <= 1)
    /\ [][(pc = "cycle" /\ stop_event /\ ~dequeued[Len(dequeued)].stopped /\ pc' # "cycle")
              => CycleCompletes]_vars

\* C30 amended: after the flag is set the worker dequeues at most one more
\* frame and so completes at most one more cycle started after it; setting
\* the flag does not move the worker, and a cycle in progress when the flag
\* is set ends as it would without the flag, by putting its frame message
\* and any data_update or by an exception of its own.
C30_FlagNeverPreempts ==
    /\ [](Cardinality(DequeuedAfterStop) <= 1)
    /\ [][/\ (stop_event' # stop_event) => (pc' = pc /\ frame_num' = frame_num)
          /\ (pc = "cycle" /\ stop_event /\ pc' # "cycle") =>
                (CycleCompletes \/ CycleRaises)]_vars

\* the flag was set during a cycle that began before it; the cycle put its
\* messages and the worker then left its loop
C30_Witness ==
    /\ pc = "done"
    /\ errors = <<>>
    /\ last_cycle.stopped
    /\ last_cycle.frame = frame_num - 1
    /\ Len(dequeued) = frame_num
    /\ ~dequeued[Len(dequeued)].stopped
    /\ result_q[Len(result_q)].type \in {"frame", "data_update"}
\* data_update messages the consumer has received
ReceivedUpdates == {i \in 1..results_taken : serialized[i].type = "data_update"}

\* rows with a class and a direction in the data_update messages up to the
\* i-th message
RowsUpTo(i, golongan, direction) ==
    {<<j, n>> \in {<<k, m>> \in (1..i) \X (1..MaxResultDetections) :
                      /\ serialized[k].type = "data_update"
                      /\ m \in DOMAIN serialized[k].new_rows} :
        /\ serialized[j].new_rows[n].Class = golongan
        /\ serialized[j].new_rows[n].Direction = direction}

\* C29: the counts of every data_update the consumer receives are the
\* worker's counts at the end of the cycle that put the message: for each
\* class and direction, the number of rows of that class and direction in
\* that message and all earlier ones.
C29_CountsAsOfPut ==
    \A i \in ReceivedUpdates :
        /\ serialized[i].counts = result_q[i].counts
        /\ \A g \in GolonganSet, d \in {"In", "Out"} :
              serialized[i].counts[g][d] = Cardinality(RowsUpTo(i, g, d))
\* the producer has just attached the snapshot s to a frame it enqueued
Attached(s) == \E i \in DOMAIN frame_buf : frame_buf[i].settings = s

\* C27: every settings snapshot the producer attaches to an enqueued frame
\* is eventually the worker's active settings, unless the worker is stopped
\* or has left its loop.
C27_AttachedApplied ==
    \A s \in SystemSettings \ {S1} :
        Attached(s) ~> (settings = s \/ stop_event \/ pc = "done")

\* ------------------------------------------------------ shutdown and restart
Flagged(p) == p \in DOMAIN workers /\ workers[p].flagged

NotAlive(p) == p \in DOMAIN workers /\ ~IsAlive(p)

AliveWorkers == {p \in DOMAIN workers : IsAlive(p)}

\* a worker for which stop_detection set the flag is eventually not alive
StoppedWorkerEnds == \A p \in 1..MaxWorkers : Flagged(p) ~> NotAlive(p)

\* with no shutdown poll outstanding at most one worker process is alive
OneAliveAfterShutdown == pending_checks = {} => Cardinality(AliveWorkers) <= 1

\* a process is terminated only by the polling scheduled for it
TerminatedByOwnPolling ==
    \A p \in DOMAIN workers : workers[p].pc = "terminated" => workers[p].killed_by = p

\* C28: for every interleaving of stop_detection, start_detection and the
\* _check_process_shutdown callbacks, a worker for which stop_detection set
\* the stop flag is eventually not alive, at most one worker is alive once
\* shutdown completes, and a worker started by a later start_detection is
\* never terminated by the polling scheduled for an earlier worker.
C28_ShutdownAcrossRestart ==
    /\ StoppedWorkerEnds
    /\ []OneAliveAfterShutdown
    /\ []TerminatedByOwnPolling

====
